---- MODULE Spec2Model ----
(***************************************************************************)
(* The neopixel driver of src/neopixel_rp2040.py as a state machine: the   *)
(* pixel buffer (__bitstreamArray), the brightness field, the frames put   *)
(* to the PIO state machine, and the client's calls of set, reset,         *)
(* setBrightness and test.                                                 *)
(***************************************************************************)
EXTENDS Integers, Sequences, FiniteSets, TLC

\* Number of LEDs the controller is constructed with (LEDS argument).
LEDS == 2

\* Number of public calls a client makes after construction.
MaxCalls == 2

\* An absent keyword argument (Python's None) and a present one.
None == <<>>
Some(v) == <<v>>
Val(a) == a[1]

--------------------------------------------------------------------------
\* Integer helpers for the bit operations of the source.

RECURSIVE BitOr(_, _)
BitOr(a, b) ==
    IF a = 0 THEN b
    ELSE IF b = 0 THEN a
    ELSE (IF a % 2 = 1 \/ b % 2 = 1 THEN 1 ELSE 0) + 2 * BitOr(a \div 2, b \div 2)

\* Byte2 without the mask: COLOR >> 16.
Byte2_NoMask(x) == x \div 65536

\* x >> 8 & 0xFF, x >> 16 & 0xFF, x & 0xFF
Byte1(x) == (x \div 256) % 256
Byte2(x) == (x \div 65536) % 256
Byte0(x) == x % 256

\* int(x * BRIGHTNESS) for x >= 0.  A brightness is the fraction
\* <<numerator, denominator>>; those passed below are 0, 1/2 and 1 for whole
\* words and quarters for 8-bit channels, whose float products are exact.
IntMul(x, BRIGHTNESS) == (x * BRIGHTNESS[1]) \div BRIGHTNESS[2]

--------------------------------------------------------------------------
\* Colors.

RGB(R, G, B) == BitOr(BitOr(R * 65536, G * 256), B)

BLACK == RGB(0, 0, 0)
WHITE == RGB(255, 255, 255)
RED == RGB(255, 0, 0)
GREEN == RGB(0, 255, 0)
BLUE == RGB(0, 0, 255)
YELLOW == RGB(255, 255, 0)
MAGENTA == RGB(255, 0, 255)
CYAN == RGB(0, 255, 255)
\* COLORS in the order the color definitions are written.
COLORS_Declared == <<BLACK, WHITE, RED, GREEN, BLUE, YELLOW, MAGENTA, CYAN>>

COLORS == <<BLACK, RED, GREEN, BLUE, CYAN, MAGENTA, YELLOW, WHITE>>

--------------------------------------------------------------------------
\* The buffer: array.array("I", ...) as a sequence; Python index i is
\* position i + 1, and a negative index counts from the end.

\* NewArray with one entry too many.
NewArray_Extra(n) == [k \in 1..(n + 1) |-> 0]

NewArray(n) == [k \in 1..n |-> 0]

InRange(arr, i) == i >= 0 - Len(arr) /\ i < Len(arr)
Pos(arr, i) == IF i < 0 THEN Len(arr) + i + 1 ELSE i + 1

\* The result of a method body: the buffer, whether an IndexError left the
\* body, and the frames handed to __stateMachine.put.
Result(arr, raised, sent) == [arr |-> arr, raised |-> raised, sent |-> sent]

\* self.__stateMachine.put(self.__bitstreamArray, 8) at the end of a body
\* that got there.
Put(r) == IF r.raised THEN r ELSE Result(r.arr, FALSE, Append(r.sent, r.arr))

--------------------------------------------------------------------------
\* The method bodies.

numLED == LEDS

\* COLOR = int(G << 16 | R << 8 | B) when no COLOR is passed.
ColorOf(R, G, B, COLOR) ==
    IF COLOR = None THEN BitOr(BitOr(G * 65536, R * 256), B) ELSE Val(COLOR)

\* RGB_SAMPLE as one product of the packed COLOR.
RGB_SAMPLE_Packed(COLOR, BRIGHTNESS) == IntMul(COLOR % 16777216, BRIGHTNESS)

\* red, green, blue and RGB_SAMPLE of set.
RGB_SAMPLE(COLOR, BRIGHTNESS) ==
    LET red == IntMul(Byte1(COLOR), BRIGHTNESS)
        green == IntMul(Byte2(COLOR), BRIGHTNESS)
        blue == IntMul(Byte0(COLOR), BRIGHTNESS)
    IN (green * 65536) + (red * 256) + blue

\* for i in range(i, stop + 1): arr[i] = w   (an IndexError ends the body and
\* keeps the stores made before it)
RECURSIVE StoreLoop(_, _, _, _)
StoreLoop(r, i, stop, w) ==
    IF i > stop THEN r
    ELSE IF ~InRange(r.arr, i) THEN Result(r.arr, TRUE, r.sent)
    ELSE StoreLoop(Result([r.arr EXCEPT ![Pos(r.arr, i)] = w], FALSE, r.sent),
                   i + 1, stop, w)

\* ScaleLoop scaling each channel of the stored word by itself.
RECURSIVE ScaleLoop_PerChannel(_, _, _, _)
ScaleLoop_PerChannel(r, i, stop, BRIGHTNESS) ==
    IF i > stop THEN r
    ELSE IF ~InRange(r.arr, i) THEN Result(r.arr, TRUE, r.sent)
    ELSE ScaleLoop_PerChannel(
             Result([r.arr EXCEPT ![Pos(r.arr, i)] = RGB_SAMPLE(@, BRIGHTNESS)],
                    FALSE, r.sent),
             i + 1, stop, BRIGHTNESS)

\* for i in range(i, stop + 1): arr[i] = int(BRIGHTNESS * arr[i])
RECURSIVE ScaleLoop(_, _, _, _)
ScaleLoop(r, i, stop, BRIGHTNESS) ==
    IF i > stop THEN r
    ELSE IF ~InRange(r.arr, i) THEN Result(r.arr, TRUE, r.sent)
    ELSE ScaleLoop(Result([r.arr EXCEPT ![Pos(r.arr, i)] = IntMul(@, BRIGHTNESS)],
                          FALSE, r.sent),
                   i + 1, stop, BRIGHTNESS)

\* set whose single-LED branch stores one slot too many.
set_Spill(arr, LED_NUMBER, START_LED, STOP_LED, R, G, B, COLOR, BRIGHTNESS) ==
    LET w == RGB_SAMPLE(ColorOf(R, G, B, COLOR), BRIGHTNESS)
        r0 == Result(arr, FALSE, <<>>)
    IN Put(IF START_LED = None /\ STOP_LED = None
           THEN IF LED_NUMBER = None
                THEN StoreLoop(r0, 0, numLED - 1, w)
                ELSE StoreLoop(r0, Val(LED_NUMBER) - 1, Val(LED_NUMBER), w)
           ELSE StoreLoop(r0, Val(START_LED), Val(STOP_LED), w))

set(arr, LED_NUMBER, START_LED, STOP_LED, R, G, B, COLOR, BRIGHTNESS) ==
    LET w == RGB_SAMPLE(ColorOf(R, G, B, COLOR), BRIGHTNESS)
        r0 == Result(arr, FALSE, <<>>)
    IN Put(IF START_LED = None /\ STOP_LED = None
           THEN IF LED_NUMBER = None
                THEN StoreLoop(r0, 0, numLED - 1, w)
                ELSE StoreLoop(r0, Val(LED_NUMBER), Val(LED_NUMBER), w)
           ELSE StoreLoop(r0, Val(START_LED), Val(STOP_LED), w))

\* reset whose range leaves STOP_LED out: range(START_LED, STOP_LED).
reset_Exclusive(arr, LED_NUMBER, START_LED, STOP_LED) ==
    LET r0 == Result(arr, FALSE, <<>>)
    IN IF START_LED = None /\ STOP_LED = None
       THEN IF LED_NUMBER = None
            THEN Put(StoreLoop(r0, 0, numLED - 1, 0))
            ELSE Put(StoreLoop(r0, Val(LED_NUMBER), Val(LED_NUMBER), 0))
       ELSE StoreLoop(r0, Val(START_LED), Val(STOP_LED) - 1, 0)

reset(arr, LED_NUMBER, START_LED, STOP_LED) ==
    LET r0 == Result(arr, FALSE, <<>>)
    IN IF START_LED = None /\ STOP_LED = None
       THEN IF LED_NUMBER = None
            THEN Put(StoreLoop(r0, 0, numLED - 1, 0))
            ELSE Put(StoreLoop(r0, Val(LED_NUMBER), Val(LED_NUMBER), 0))
       ELSE StoreLoop(r0, Val(START_LED), Val(STOP_LED), 0)

setBrightness(arr, LED_NUMBER, BRIGHTNESS, START_LED, STOP_LED) ==
    LET r0 == Result(arr, FALSE, <<>>)
    IN Put(IF START_LED = None /\ STOP_LED = None
           THEN IF LED_NUMBER = None
                THEN ScaleLoop(r0, 0, numLED - 1, BRIGHTNESS)
                ELSE ScaleLoop(r0, Val(LED_NUMBER), Val(LED_NUMBER), BRIGHTNESS)
           ELSE ScaleLoop(r0, Val(START_LED), Val(STOP_LED), BRIGHTNESS))

--------------------------------------------------------------------------
\* The arguments a client passes.  A selector is LED_NUMBER, or START_LED and
\* STOP_LED, or nothing; its indices run from -1 to numLED.

IndexArgs == (0 - 1)..LEDS

Selector(n, a, b) == [LED_NUMBER |-> n, START_LED |-> a, STOP_LED |-> b]

Selectors ==
    {Selector(None, None, None)}
    \cup {Selector(Some(n), None, None) : n \in IndexArgs}
    \cup {Selector(None, Some(a), Some(b)) : a \in IndexArgs, b \in IndexArgs}

\* In bounds: 0 <= index < led_count, and 0 <= start <= stop < led_count.
Valid(s) ==
    IF s.START_LED = None /\ s.STOP_LED = None
    THEN s.LED_NUMBER = None \/ (Val(s.LED_NUMBER) >= 0 /\ Val(s.LED_NUMBER) < LEDS)
    ELSE /\ 0 <= Val(s.START_LED)
         /\ Val(s.START_LED) <= Val(s.STOP_LED)
         /\ Val(s.STOP_LED) < LEDS

\* The LED indices a selector names.
Range(s) ==
    IF s.START_LED = None /\ s.STOP_LED = None
    THEN IF s.LED_NUMBER = None THEN 0..(LEDS - 1) ELSE {Val(s.LED_NUMBER)}
    ELSE Val(s.START_LED)..Val(s.STOP_LED)

ValidSelectors == {s \in Selectors : Valid(s)}

Full == <<1, 1>>
Half == <<1, 2>>
BrightnessArgs == {<<0, 1>>, Half, Full}

ColorInput(R, G, B, COLOR) == [R |-> R, G |-> G, B |-> B, COLOR |-> COLOR]

\* set() with its defaults R = G = B = 0xFF, COLOR = None.
DefaultColor == ColorInput(255, 255, 255, None)

\* COLOR = RED, the default white, and a COLOR wider than 24 bits.
ColorInputs ==
    {ColorInput(255, 255, 255, Some(RED)), DefaultColor,
     ColorInput(255, 255, 255, Some(16777216 + 255))}

\* The calls of a client: every color and brightness with the selectors in
\* bounds, the defaults with the others.
SetArgs ==
    (ValidSelectors \X ColorInputs \X BrightnessArgs)
    \cup ((Selectors \ ValidSelectors) \X {DefaultColor} \X {Full})

SetBrightnessArgs ==
    (ValidSelectors \X BrightnessArgs)
    \cup ((Selectors \ ValidSelectors) \X {Half})

\* The calls of set alone, one after construction: channel values and
\* brightness steps of a quarter, as R, G, B and as COLOR = RGB(R, G, B).
ChannelArgs == {0, 1, 128, 255}

QuarterArgs == {<<0, 1>>, <<1, 4>>, Half, <<3, 4>>, Full}

WideColorInputs ==
    {ColorInput(r, g, b, None) : r \in ChannelArgs, g \in ChannelArgs, b \in ChannelArgs}
    \cup {ColorInput(255, 255, 255, Some(RGB(r, g, b))) :
            r \in ChannelArgs, g \in ChannelArgs, b \in ChannelArgs}

WideSetArgs == Selectors \X WideColorInputs \X QuarterArgs

--------------------------------------------------------------------------
VARIABLES
    bitstreamArray,    \* self.__bitstreamArray
    brightnessOffset,  \* self.__brightnessOffset
    sent,              \* the frames the last call put to the state machine
    call,              \* the last call: method, arguments, raised or not
    pre,               \* the buffer when the last call began
    compound,          \* the run of setBrightness calls on one LED ending here
    ncalls,            \* public calls made by the client so far
    pc, tj, ti,        \* test(): running or not, and its loop variables j, i
    shown,             \* test(): what slot j held in the frames sent for LED j
    visited            \* test(): the LEDs whose cycle has ended, in order

vars == <<bitstreamArray, brightnessOffset, sent, call, pre, compound, ncalls,
          pc, tj, ti, shown, visited>>

NoArgs == [LED_NUMBER |-> None, START_LED |-> None, STOP_LED |-> None,
           R |-> None, G |-> None, B |-> None, COLOR |-> None,
           BRIGHTNESS |-> None]

\* A call of a method: by the client or from inside test().
Call(op, args, raised, caller) ==
    [op |-> op, args |-> args, raised |-> raised, caller |-> caller]

NoRun == [n |-> 0, LED |-> None, from |-> None, by |-> <<>>]

\* __init__: the array of numLED zeros, then self.reset().
Init ==
    LET r == reset(NewArray(numLED), None, None, None)
    IN /\ bitstreamArray = r.arr
       /\ brightnessOffset = Full
       /\ sent = r.sent
       /\ call = Call("__init__", NoArgs, r.raised, "client")
       /\ pre = r.arr
       /\ compound = NoRun
       /\ ncalls = 0
       /\ pc = "idle"
       /\ tj = 0
       /\ ti = 0
       /\ shown = <<>>
       /\ visited = <<>>

\* The effect of one method body on the driver's state.
Apply(r, op, args, caller) ==
    /\ bitstreamArray' = r.arr
    /\ sent' = r.sent
    /\ call' = Call(op, args, r.raised, caller)
    /\ pre' = bitstreamArray

\* One call of set with arguments drawn from args.
SetWith(args) ==
    \E x \in args :
       LET s == x[1]
           c == x[2]
           b == x[3]
       IN /\ Apply(set(bitstreamArray, s.LED_NUMBER, s.START_LED, s.STOP_LED,
                       c.R, c.G, c.B, c.COLOR, b),
                   "set",
                   [NoArgs EXCEPT !.LED_NUMBER = s.LED_NUMBER,
                                  !.START_LED = s.START_LED,
                                  !.STOP_LED = s.STOP_LED,
                                  !.R = Some(c.R), !.G = Some(c.G), !.B = Some(c.B),
                                  !.COLOR = c.COLOR, !.BRIGHTNESS = Some(b)],
                   "client")
          /\ brightnessOffset' = b

SetCall ==
    /\ pc = "idle"
    /\ ncalls < MaxCalls
    /\ SetWith(SetArgs)
    /\ compound' = NoRun
    /\ ncalls' = ncalls + 1
    /\ UNCHANGED <<pc, tj, ti, shown, visited>>

ResetCall ==
    /\ pc = "idle"
    /\ ncalls < MaxCalls
    /\ \E s \in Selectors :
         Apply(reset(bitstreamArray, s.LED_NUMBER, s.START_LED, s.STOP_LED),
               "reset",
               [NoArgs EXCEPT !.LED_NUMBER = s.LED_NUMBER,
                              !.START_LED = s.START_LED,
                              !.STOP_LED = s.STOP_LED],
               "client")
    /\ compound' = NoRun
    /\ ncalls' = ncalls + 1
    /\ UNCHANGED <<brightnessOffset, pc, tj, ti, shown, visited>>

\* The run of successful single-LED setBrightness calls that the call
\* setBrightness(LED_NUMBER = n, BRIGHTNESS = b) ends.
Extend(run, s, b, r) ==
    IF r.raised \/ s.LED_NUMBER = None \/ s.START_LED # None \/ s.STOP_LED # None
    THEN NoRun
    ELSE IF run.n > 0 /\ run.LED = s.LED_NUMBER
         THEN [run EXCEPT !.n = @ + 1, !.by = Append(@, b)]
         ELSE [n |-> 1, LED |-> s.LED_NUMBER,
               from |-> Some(bitstreamArray[Pos(bitstreamArray, Val(s.LED_NUMBER))]),
               by |-> <<b>>]

\* One call of setBrightness.
SetBrightnessStep ==
    /\ \E x \in SetBrightnessArgs :
         LET s == x[1]
             b == x[2]
             r == setBrightness(bitstreamArray, s.LED_NUMBER, b,
                                s.START_LED, s.STOP_LED)
         IN /\ Apply(r, "setBrightness",
                     [NoArgs EXCEPT !.LED_NUMBER = s.LED_NUMBER,
                                    !.START_LED = s.START_LED,
                                    !.STOP_LED = s.STOP_LED,
                                    !.BRIGHTNESS = Some(b)],
                     "client")
            /\ brightnessOffset' = b
            /\ compound' = Extend(compound, s, b, r)
    /\ ncalls' = ncalls + 1
    /\ UNCHANGED <<pc, tj, ti, shown, visited>>

SetBrightnessCall ==
    /\ pc = "idle"
    /\ ncalls < MaxCalls
    /\ SetBrightnessStep

\* test() is entered: for j in range(0, numLED), for i in range(0, len(COLORS)).
TestCall ==
    /\ pc = "idle"
    /\ ncalls < MaxCalls
    /\ pc' = IF numLED > 0 THEN "test" ELSE "idle"
    /\ tj' = 0
    /\ ti' = 0
    /\ shown' = <<>>
    /\ visited' = <<>>
    /\ call' = Call("test", NoArgs, FALSE, "client")
    /\ sent' = <<>>
    /\ pre' = bitstreamArray
    /\ compound' = NoRun
    /\ ncalls' = ncalls + 1
    /\ UNCHANGED <<bitstreamArray, brightnessOffset>>

\* self.set(LED_NUMBER=j, COLOR=self.COLORS[i]); time.sleep_ms(500)
TestSet ==
    /\ pc = "test"
    /\ ti < Len(COLORS)
    /\ LET r == set(bitstreamArray, Some(tj), None, None, 255, 255, 255,
                    Some(COLORS[ti + 1]), Full)
       IN /\ Apply(r, "set",
                   [NoArgs EXCEPT !.LED_NUMBER = Some(tj),
                                  !.R = Some(255), !.G = Some(255), !.B = Some(255),
                                  !.COLOR = Some(COLORS[ti + 1]),
                                  !.BRIGHTNESS = Some(Full)],
                   "test")
          /\ shown' = (IF ti = 0 THEN <<>> ELSE shown) \o [k \in 1..Len(r.sent) |-> r.sent[k][tj + 1]]
    /\ brightnessOffset' = Full
    /\ ti' = ti + 1
    /\ UNCHANGED <<compound, ncalls, pc, tj, visited>>

\* self.reset() after the colors of LED j, then the next j or the return.
TestReset ==
    /\ pc = "test"
    /\ ti = Len(COLORS)
    /\ Apply(reset(bitstreamArray, None, None, None), "reset", NoArgs, "test")
    /\ visited' = Append(visited, tj)
    /\ ti' = 0
    /\ tj' = tj + 1
    /\ pc' = IF tj + 1 < numLED THEN "test" ELSE "idle"
    /\ UNCHANGED <<brightnessOffset, compound, ncalls, shown>>

Next ==
    \/ SetCall
    \/ ResetCall
    \/ SetBrightnessCall
    \/ TestCall
    \/ TestSet
    \/ TestReset

Spec == Init /\ [][Next]_vars

\* A client whose only call is one set, right after construction.
SetFirst ==
    /\ call.op = "__init__"
    /\ SetWith(WideSetArgs)
    /\ compound' = NoRun
    /\ ncalls' = ncalls + 1
    /\ UNCHANGED <<pc, tj, ti, shown, visited>>

SpecSet == Init /\ [][SetFirst]_vars

\* A client that sets a color and then changes the brightness, as in the
\* example: one call of set, then up to MaxCalls calls of setBrightness.
SetThen ==
    /\ call.op = "__init__"
    /\ SetWith(SetArgs)
    /\ compound' = NoRun
    /\ ncalls' = ncalls + 1
    /\ UNCHANGED <<pc, tj, ti, shown, visited>>

BrightnessAfter ==
    /\ call.op # "__init__"
    /\ ncalls <= MaxCalls
    /\ SetBrightnessStep

NextBrightness ==
    \/ SetThen
    \/ BrightnessAfter

SpecBrightness == Init /\ [][NextBrightness]_vars

--------------------------------------------------------------------------
\* Properties.

Mutators == {"set", "reset", "setBrightness"}

\* The selector of the last call, and the brightness and COLOR it passed.
CallSelector ==
    Selector(call.args.LED_NUMBER, call.args.START_LED, call.args.STOP_LED)
CallBrightness == Val(call.args.BRIGHTNESS)

Slot(arr, n) == arr[n + 1]
Others(s) == (0..(LEDS - 1)) \ Range(s)
IsRange(s) == s.START_LED # None /\ s.STOP_LED # None
IsSingle(s) == s.LED_NUMBER # None /\ s.START_LED = None /\ s.STOP_LED = None

\* floor(b * x) for a brightness b = <<numerator, denominator>>.
Floor(b, x) == (b[1] * x) \div b[2]

\* The three 8-bit channels of a 24-bit word, each scaled by b, in place.
ScaledChannels(w, b) ==
    (Floor(b, (w \div 65536) % 256) * 65536)
    + (Floor(b, (w \div 256) % 256) * 256)
    + Floor(b, w % 256)

\* C1: every call of set, reset or setBrightness with a selector in bounds
\* (single, range or all) puts exactly one frame, the buffer as the call
\* left it.
C1_OneTransmitPerCall ==
    (call.op \in Mutators /\ Valid(CallSelector))
        => (Len(sent) = 1 /\ sent[1] = bitstreamArray)

\* C2: a call of set, reset or setBrightness whose selector is out of bounds
\* fails and leaves every buffer entry as it was.
C2_OutOfBoundsFailsUnchanged ==
    (call.op \in Mutators /\ ~Valid(CallSelector))
        => (call.raised /\ bitstreamArray = pre)

\* C3: after set(selector, COLOR, b) with a selector in bounds, every slot of
\* the selector holds COLOR with each 8-bit channel scaled to
\* floor(channel * b) in its own position.
C3_SetScalesPerChannel ==
    (call.op = "set" /\ call.args.COLOR # None /\ Valid(CallSelector))
        => \A n \in Range(CallSelector) :
              Slot(bitstreamArray, n)
                  = ScaledChannels(Val(call.args.COLOR) % 16777216, CallBrightness)

\* WHITE at brightness 0.5 over the range [0, LEDS - 1]: 0x7F7F7F in every
\* slot, which is not the packed integer times 0.5.
C3_Witness ==
    /\ call.op = "set"
    /\ call.args.COLOR = Some(16777215)
    /\ CallBrightness = Half
    /\ CallSelector = Selector(None, Some(0), Some(LEDS - 1))
    /\ \A n \in 0..(LEDS - 1) : Slot(bitstreamArray, n) = 8355711
    /\ 8355711 # Floor(Half, 16777215)

\* C4: setBrightness(selector, b) with a selector in bounds replaces each word
\* w of the selector by floor(b * w), the product of the whole word, and two
\* calls setBrightness(index, 0.5) in a row leave
\* floor(floor(original * 0.5) * 0.5) at that index.
C4_SetBrightnessCompounds ==
    /\ (call.op = "setBrightness" /\ Valid(CallSelector))
          => \A n \in Range(CallSelector) :
                Slot(bitstreamArray, n) = Floor(CallBrightness, Slot(pre, n))
    /\ (compound.n = 2 /\ compound.by = <<Half, Half>>
        /\ Valid(Selector(compound.LED, None, None)))
          => Slot(bitstreamArray, Val(compound.LED))
                = Floor(Half, Floor(Half, Val(compound.from)))

\* Two calls setBrightness(index, 0.5) in a row on a word whose channels all
\* show: the second call changed the word again, and the result is not the
\* channels halved twice.
C4_Witness ==
    /\ compound.n = 2
    /\ compound.by = <<Half, Half>>
    /\ Valid(Selector(compound.LED, None, None))
    /\ Val(compound.from) = 16777215
    /\ Slot(bitstreamArray, Val(compound.LED)) = 4194303
    /\ Slot(bitstreamArray, Val(compound.LED)) # Slot(pre, Val(compound.LED))
    /\ 4194303 # ScaledChannels(ScaledChannels(16777215, Half), Half)

\* C5: set, reset and setBrightness with a single index or a range in bounds
\* leave every slot outside the selector as it was.
C5_OtherSlotsKept ==
    (/\ call.op \in Mutators
     /\ Valid(CallSelector)
     /\ (IsSingle(CallSelector) \/ IsRange(CallSelector)))
        => \A n \in Others(CallSelector) : Slot(bitstreamArray, n) = Slot(pre, n)

\* A single-index or range call that changed its own slot beside a slot
\* holding a color.
C5_Witness ==
    /\ call.op \in Mutators
    /\ Valid(CallSelector)
    /\ IsSingle(CallSelector) \/ IsRange(CallSelector)
    /\ \E n \in Range(CallSelector) : Slot(bitstreamArray, n) # Slot(pre, n)
    /\ \E n \in Others(CallSelector) :
          Slot(pre, n) # 0 /\ Slot(bitstreamArray, n) = Slot(pre, n)

\* C6: after reset(selector) with a selector in bounds every slot of the
\* selector is zero, whatever it held; reset() leaves all LEDS entries zero.
C6_ResetZeroes ==
    (call.op = "reset" /\ Valid(CallSelector))
        => \A n \in Range(CallSelector) : Slot(bitstreamArray, n) = 0

\* A reset over a range whose last slot held a color.
C6_Witness ==
    /\ call.op = "reset"
    /\ IsRange(CallSelector)
    /\ Valid(CallSelector)
    /\ Slot(pre, Val(CallSelector.STOP_LED)) # 0
    /\ \A n \in Range(CallSelector) : Slot(bitstreamArray, n) = 0

\* C7: after construction the buffer has LEDS entries, all zero, and it has
\* LEDS entries in every state reached by set, reset, setBrightness and test.
C7_BufferLength ==
    /\ Len(bitstreamArray) = LEDS
    /\ call.op = "__init__" => \A n \in 0..(LEDS - 1) : Slot(bitstreamArray, n) = 0

\* After a call that stored a color and a test() that ran to its end.
C7_Witness ==
    /\ ncalls = 2
    /\ call.caller = "test"
    /\ pc = "idle"
    /\ \E n \in 0..(LEDS - 1) : Slot(pre, n) # 0
    /\ Len(bitstreamArray) = LEDS

\* The palette, in the order test() shows it.
Palette == <<0, 16711680, 65280, 255, 65535, 16711935, 16776960, 16777215>>

Ascending(n) == [k \in 1..n |-> k - 1]
InTest == call.caller = "test"

\* C8 as stated: each step test() makes for LED j leaves the slots of the
\* other LEDs as they were, the reset after the palette included.
C8_TestResetsOnlyThatLED ==
    InTest =>
        \A n \in 0..(LEDS - 1) :
            n # (IF call.op = "reset" THEN tj - 1 ELSE tj)
                => Slot(bitstreamArray, n) = Slot(pre, n)

\* C8 amended: test() takes the LEDs 0..LEDS-1 in ascending order, each once;
\* for LED j it puts 8 frames in which slot j holds BLACK, RED, GREEN, BLUE,
\* CYAN, MAGENTA, YELLOW, WHITE in that order, each set leaving the other
\* slots as they were, and then calls reset(), which zeroes every slot and
\* puts one more frame; test() ends with every slot zero.
C8_TestCycle ==
    /\ pc = "test" => (tj \in 0..(LEDS - 1) /\ ti \in 0..8 /\ visited = Ascending(tj))
    /\ (InTest /\ call.op = "set") =>
          /\ ti \in 1..8
          /\ shown = SubSeq(Palette, 1, ti)
          /\ sent = <<bitstreamArray>>
          /\ Slot(bitstreamArray, tj) = Palette[ti]
          /\ \A n \in 0..(LEDS - 1) :
                n # tj => Slot(bitstreamArray, n) = Slot(pre, n)
    /\ (InTest /\ call.op = "reset") =>
          /\ ti = 0
          /\ shown = Palette
          /\ sent = <<bitstreamArray>>
          /\ visited = Ascending(tj)
          /\ \A n \in 0..(LEDS - 1) : Slot(bitstreamArray, n) = 0
    /\ (InTest /\ pc = "idle") =>
          /\ visited = Ascending(LEDS)
          /\ \A n \in 0..(LEDS - 1) : Slot(bitstreamArray, n) = 0

\* test() has ended: every LED visited in order, the last one shown the whole
\* palette, every slot zero.
C8_Witness ==
    /\ InTest
    /\ pc = "idle"
    /\ visited = Ascending(LEDS)
    /\ shown = Palette
    /\ \A n \in 0..(LEDS - 1) : Slot(bitstreamArray, n) = 0

\* C9: set with R = r, G = g, B = b stores the word that set with
\* COLOR = RGB(r, g, b) stores, for the same selector and brightness.
C9_ColorFormsAgree ==
    (call.op = "set" /\ call.args.COLOR = None /\ Valid(CallSelector))
        => LET byColor ==
                   set(pre, call.args.LED_NUMBER, call.args.START_LED,
                       call.args.STOP_LED, 255, 255, 255,
                       Some(RGB(Val(call.args.R), Val(call.args.G), Val(call.args.B))),
                       CallBrightness).arr
           IN \A n \in Range(CallSelector) :
                 Slot(bitstreamArray, n) = Slot(byColor, n)

\* C10: every buffer word is in 0..0xFFFFFF, and setBrightness raises none.
C10_WordsIn24Bits ==
    /\ \A n \in 0..(LEDS - 1) :
          Slot(bitstreamArray, n) >= 0 /\ Slot(bitstreamArray, n) <= 16777215
    /\ call.op = "setBrightness" =>
          \A n \in 0..(LEDS - 1) : Slot(bitstreamArray, n) <= Slot(pre, n)

\* A setBrightness that lowered a word set from a COLOR wider than 24 bits,
\* without zeroing it.
C10_Witness ==
    /\ call.op = "setBrightness"
    /\ Valid(CallSelector)
    /\ \E n \in Range(CallSelector) :
          /\ Slot(pre, n) = 255
          /\ Slot(bitstreamArray, n) = 127

====
